---- MODULE Spec2Model ----
(***************************************************************************)
(* The bridge server of ollama-browl (src/bridge_server/server.js): the    *)
(* request/response correlation between POST /execute callers and the      *)
(* browser extension connected over a WebSocket.                           *)
(*                                                                         *)
(* Node runs every handler to completion on one event loop, so each        *)
(* handler (a 'connection', 'message' or 'close' event, an executeCommand  *)
(* call, a timer callback) is one atomic action. Durations are not         *)
(* measured: a timer carries its delay and runs at some point after it was *)
(* armed, timers of equal delay in the order they were armed.              *)
(*                                                                         *)
(* The second part is the background script of the extension               *)
(* (src/src/background/main.js): its connection to the bridge with the     *)
(* reconnect schedule, and the handling of the commands it receives. It    *)
(* has its own variables and its own specification, BgSpec, under which    *)
(* the server does not move; under Spec the background script does not.    *)
(***************************************************************************)
EXTENDS Integers, Sequences, FiniteSets, TLC

\* ---------------------------------------------------------------- bounds
MaxCalls == 2        \* executeCommand calls made in a behaviour
MaxPeers == 2        \* WebSocket peers that connect in a behaviour
MaxSockets == 7      \* WebSocket objects the background script creates in a behaviour
MaxTabs == 2         \* tabs open in the browser at a time
MaxPopup == 2        \* messages the popup sends in a behaviour
MaxMessages == 1     \* messages the background script receives in a behaviour

\* ------------------------------------------------------------- constants
Timeout == 30000     \* the delay given to setTimeout, in ms
NoSocket == 0        \* extensionSocket = null
NoId == 0            \* a message or command without an `id` field
Undefined == "undefined"   \* an absent string field
maxReconnectAttempts == 5  \* this.maxReconnectAttempts

Peers == 1..MaxPeers
Ids == 1..MaxCalls

VARIABLES
  extensionSocket,   \* this.extensionSocket: NoSocket or the peer last accepted
  pendingRequests,   \* this.pendingRequests: a Map, as a set of <<id, resolve>> entries
  peers,             \* each ws object: "idle" (not yet connected), "open", "closed"
  sent,              \* sent[p]: the ids of the messages handed to peer p by send()
  calls,             \* the promises returned by executeCommand, in call order
  timers,            \* the setTimeout callbacks armed and not yet run
  uuids              \* how many identifiers uuidv4() has produced

vars == <<extensionSocket, pendingRequests, peers, sent, calls, timers, uuids>>

\* The background script.
VARIABLES
  websocket,         \* this.websocket: 0 (null) or the index in `sockets` of the object
  sockets,           \* the WebSocket objects created, each "connecting", "open" or "closed"
  isConnected,       \* this.isConnected
  reconnectAttempts, \* this.reconnectAttempts
  reconnectDelay,    \* this.reconnectDelay in ms, a fraction [num, den]
  reconnectTimers,   \* the delays of the setTimeout callbacks armed and not yet run
  messages           \* the messages received from the bridge, in order of arrival

bgvars == <<websocket, sockets, isConnected, reconnectAttempts, reconnectDelay,
            reconnectTimers, messages>>

\* The browser's tabs and the tab selection of one executeCommand.
VARIABLES
  tabs,              \* the URLs of the open tabs, in the order chrome.tabs.query lists them
  active,            \* the active tab of the current window (its index), 0: none
  find               \* the executeCommand whose tab is being selected

tabvars == <<tabs, active, find>>

\* The popup.
VARIABLES
  popup              \* the messages the popup sent with chrome.runtime.sendMessage

allvars == <<vars, bgvars, tabvars, popup>>

\* ------------------------------------------------------- result values
\* Every value given to resolve() has the shape of an executor reply; a field
\* the object does not have is NoId / Undefined.
Failure(err) ==
  [id |-> NoId, success |-> FALSE, data |-> Undefined, error |-> err,
   elementType |-> Undefined]

NotConnected == Failure("Extension not connected")
RequestTimeout == Failure("Request timeout")
SendFailed == Failure("Failed to send to extension")
Disconnected == Failure("Extension disconnected")

\* The bodies an executor reply can carry (a successful read, a domain error).
Payloads ==
  { [success |-> TRUE, data |-> "hello", error |-> Undefined, elementType |-> "input"],
    [success |-> FALSE, data |-> Undefined, error |-> "Element not found",
     elementType |-> Undefined] }

Reply(i, b) ==
  [id |-> i, success |-> b.success, data |-> b.data, error |-> b.error,
   elementType |-> b.elementType]

\* ------------------------------------------------------------ Map
MapHas(m, k) == \E e \in m : e[1] = k
MapGet(m, k) == (CHOOSE e \in m : e[1] = k)[2]
MapDelete(m, k) == {e \in m : e[1] # k}
MapSet(m, k, v) == MapDelete(m, k) \cup {<<k, v>>}
MapKeys(m) == {e[1] : e \in m}

\* ------------------------------------------------------------ promises
\* calls[c].results lists the values resolve() of call c was invoked with; a
\* promise settles on the first one, which is what the caller receives.
Resolve(cs, c, value) == [cs EXCEPT ![c].results = Append(@, value)]

Settled(c) == calls[c].results # <<>>
Delivered(c) == Head(calls[c].results)

\* ForEachResolve with the loop left after its first entry.
ForEachResolveFirstOnly(m, cs, value) ==
  IF m = {} THEN cs
  ELSE Resolve(cs, (CHOOSE e \in m : \A f \in m : e[1] <= f[1])[2], value)

RECURSIVE ForEachResolve(_, _, _)
ForEachResolve(m, cs, value) ==
  IF m = {} THEN cs
  ELSE LET e == CHOOSE x \in m : TRUE
       IN ForEachResolve(m \ {e}, Resolve(cs, e[2], value), value)

\* ------------------------------------------------------------ initial state
\* The server after its constructor, and the background script after its
\* constructor and init(): connectToBridge has created the first WebSocket
\* object.
Init ==
  /\ extensionSocket = NoSocket
  /\ pendingRequests = {}
  /\ peers = [p \in Peers |-> "idle"]
  /\ sent = [p \in Peers |-> {}]
  /\ calls = <<>>
  /\ timers = {}
  /\ uuids = 0
  /\ websocket = 1
  /\ sockets = <<"connecting">>
  /\ isConnected = FALSE
  /\ reconnectAttempts = 0
  /\ reconnectDelay = [num |-> 2000, den |-> 1]
  /\ reconnectTimers = <<>>
  /\ messages = <<>>
  /\ tabs = <<>>
  /\ active = 0
  /\ find = [stage |-> "idle", id |-> NoId, url |-> <<>>, target |-> 0, messaged |-> 0,
             reply |-> <<>>]
  /\ popup = <<>>

\* ------------------------------------------------------------ inputs
\* A request body: its own `id` field (NoId: none; otherwise an identifier the
\* server generated earlier, which its replies disclose) and `timeout` field
\* (0: none). The other fields (action, selector, value, url) are opaque to
\* the server.
Commands == [id : {NoId} \cup (1..uuids), timeout : {0, Timeout \div 2}]

\* An id the server never generates.
UnknownId == MaxCalls + 1

\* What peer p can put on the wire: text that is not JSON, the JSON text `null`,
\* or an object; an object's id is absent, one the server never generated, or
\* one p has been sent (identifiers are random UUIDs, a peer cannot produce a
\* generated one it has not seen).
NoMsg == Reply(NoId, CHOOSE b \in Payloads : ~b.success)
Frames(p) ==
  {[text |-> "garbage", msg |-> NoMsg], [text |-> "null", msg |-> NoMsg]}
    \cup {[text |-> "object", msg |-> Reply(i, b)] :
            i \in {NoId, UnknownId} \cup sent[p], b \in Payloads}

\* ------------------------------------------------------------ operations
\* uuidv4 returning the identifier it returned before.
uuidv4Repeating == IF uuids = 0 THEN 1 ELSE uuids

\* const id = uuidv4(): a fresh identifier.
uuidv4 == uuids + 1

\* const message = { id, ...command }: the spread comes after id, so an `id`
\* field of the request body replaces the generated one.
BuildMessage(id, command) ==
  [id |-> IF command.id # NoId THEN command.id ELSE id]

\* wss.on('connection'): a new peer is accepted and becomes extensionSocket.
\* Peers connect in the order of their numbers.
Connection(p) ==
  /\ peers[p] = "idle"
  /\ \A q \in Peers : q < p => peers[q] # "idle"
  /\ peers' = [peers EXCEPT ![p] = "open"]
  /\ extensionSocket' = p
  /\ UNCHANGED <<pendingRequests, sent, calls, timers, uuids>>

\* handleExtensionMessage giving the message to the oldest entry of the table,
\* whatever its id.
handleExtensionMessageInOrder(message) ==
  IF pendingRequests # {}
  THEN LET e == CHOOSE x \in pendingRequests : \A y \in pendingRequests : x[1] <= y[1]
       IN [pendingRequests |-> pendingRequests \ {e},
           calls |-> Resolve(calls, e[2], message)]
  ELSE [pendingRequests |-> pendingRequests, calls |-> calls]

\* handleExtensionMessage resolving a failed reply with an error of its own.
handleExtensionMessageRewritten(message) ==
  IF MapHas(pendingRequests, message.id)
  THEN [pendingRequests |-> MapDelete(pendingRequests, message.id),
        calls |-> Resolve(calls, MapGet(pendingRequests, message.id),
                          IF message.success THEN message
                          ELSE [message EXCEPT !.error = "Command failed"])]
  ELSE [pendingRequests |-> pendingRequests, calls |-> calls]

\* handleExtensionMessage(message): the table and the promises afterwards.
handleExtensionMessage(message) ==
  IF MapHas(pendingRequests, message.id)
  THEN [pendingRequests |-> MapDelete(pendingRequests, message.id),
        calls |-> Resolve(calls, MapGet(pendingRequests, message.id), message)]
  ELSE [pendingRequests |-> pendingRequests, calls |-> calls]

\* History kept with each call, read by the properties only: `reply` is the
\* first message carrying the call's key that the peer it was sent to delivered
\* while the call's timer had not yet run; `ignored` says that a message
\* carrying the call's key was handled when the key was not in the table.
Armed(c) == \E t \in timers : t.call = c

Heard(cs, p, message) ==
  [c \in DOMAIN cs |->
     IF cs[c].key = NoId \/ cs[c].key # message.id THEN cs[c]
     ELSE [cs[c] EXCEPT
             !.reply = IF @ = <<>> /\ cs[c].socket = p /\ Armed(c)
                       THEN <<message>> ELSE @,
             !.ignored = @ \/ ~MapHas(pendingRequests, message.id)]]

\* OnMessage without the try/catch: the exception of a frame that does not
\* parse ends the process, and with it every connection.
OnMessageUncaught(p, frame) ==
  /\ peers[p] = "open"
  /\ UNCHANGED <<sent, timers, uuids>>
  /\ frame \in Frames(p)
  /\ IF frame.text = "object"
     THEN LET after == handleExtensionMessage(frame.msg)
          IN /\ pendingRequests' = after.pendingRequests
             /\ calls' = Heard(after.calls, p, frame.msg)
             /\ UNCHANGED <<extensionSocket, peers>>
     ELSE /\ peers' = [q \in Peers |-> IF peers[q] = "open" THEN "closed" ELSE peers[q]]
          /\ extensionSocket' = NoSocket
          /\ UNCHANGED <<pendingRequests, calls>>

\* ws.on('message'): JSON.parse throws on garbage, the destructuring of
\* handleExtensionMessage throws on null; both are caught and logged.
OnMessage(p, frame) ==
  /\ peers[p] = "open"
  /\ UNCHANGED <<extensionSocket, peers, sent, timers, uuids>>
  /\ frame \in Frames(p)
  /\ IF frame.text = "object"
     THEN LET after == handleExtensionMessage(frame.msg)
          IN /\ pendingRequests' = after.pendingRequests
             /\ calls' = Heard(after.calls, p, frame.msg)
     ELSE UNCHANGED <<pendingRequests, calls>>

\* OnClose that sets extensionSocket to null and leaves the table alone.
OnCloseKeepsPending(p) ==
  /\ peers[p] = "open"
  /\ peers' = [peers EXCEPT ![p] = "closed"]
  /\ extensionSocket' = NoSocket
  /\ UNCHANGED <<pendingRequests, calls, sent, timers, uuids>>

\* OnClose without pendingRequests.clear().
OnCloseNoClear(p) ==
  /\ peers[p] = "open"
  /\ peers' = [peers EXCEPT ![p] = "closed"]
  /\ extensionSocket' = NoSocket
  /\ calls' = ForEachResolve(pendingRequests, calls, Disconnected)
  /\ UNCHANGED <<pendingRequests, sent, timers, uuids>>

\* ws.on('close'), of any peer that was accepted.
OnClose(p) ==
  /\ peers[p] = "open"
  /\ peers' = [peers EXCEPT ![p] = "closed"]
  /\ extensionSocket' = NoSocket
  /\ calls' = ForEachResolve(pendingRequests, calls, Disconnected)
  /\ pendingRequests' = {}
  /\ UNCHANGED <<sent, timers, uuids>>

\* A call record: the key it was registered under (NoId: none), the socket its
\* message was handed to (NoSocket: none), the values given to resolve(), and
\* whether the promise was rejected (reject is never called, and nothing in the
\* executor of the promise throws).
NewCall(key, socket, results) ==
  [key |-> key, socket |-> socket, results |-> results, rejected |-> FALSE,
   reply |-> <<>>, ignored |-> FALSE]

\* RejectNotConnected with the identifier generated before the socket is tested.
RejectNotConnectedAfterId ==
  /\ calls' = Append(calls, NewCall(NoId, NoSocket, <<NotConnected>>))
  /\ uuids' = uuids + 1
  /\ UNCHANGED <<pendingRequests, sent, timers>>

\* executeCommand with no extension socket: resolve at once, return.
RejectNotConnected ==
  /\ calls' = Append(calls, NewCall(NoId, NoSocket, <<NotConnected>>))
  /\ UNCHANGED <<pendingRequests, sent, timers, uuids>>

\* NewTimer with half the delay.
NewTimerHalf(id, c) == [id |-> id, call |-> c, delay |-> Timeout \div 2]

\* The timer armed for call c, registered under id.
NewTimer(id, c) == [id |-> id, call |-> c, delay |-> Timeout]

\* Dispatch without the try/catch around send(): the exception leaves the
\* executor of the promise, which is rejected.
DispatchUncaught(command, sendOk) ==
  LET c == Len(calls) + 1
      id == uuidv4
      message == BuildMessage(id, command)
      registered == MapSet(pendingRequests, id, c)
  IN /\ uuids' = uuids + 1
     /\ timers' = timers \cup {NewTimer(id, c)}
     /\ pendingRequests' = registered
     /\ IF sendOk
        THEN /\ sent' = [sent EXCEPT ![extensionSocket] = @ \cup {message.id}]
             /\ calls' = Append(calls, NewCall(id, extensionSocket, <<>>))
        ELSE /\ sent' = sent
             /\ calls' = Append(calls, [NewCall(id, NoSocket, <<>>) EXCEPT !.rejected = TRUE])

\* Dispatch whose catch block resolves without deleting the entry.
DispatchKeepsEntry(command, sendOk) ==
  LET c == Len(calls) + 1
      id == uuidv4
      message == BuildMessage(id, command)
      registered == MapSet(pendingRequests, id, c)
  IN /\ uuids' = uuids + 1
     /\ timers' = timers \cup {NewTimer(id, c)}
     /\ pendingRequests' = registered
     /\ IF sendOk
        THEN /\ sent' = [sent EXCEPT ![extensionSocket] = @ \cup {message.id}]
             /\ calls' = Append(calls, NewCall(id, extensionSocket, <<>>))
        ELSE /\ sent' = sent
             /\ calls' = Append(calls, NewCall(id, NoSocket, <<SendFailed>>))

\* executeCommand with an extension socket: generate the id, build the
\* message, store the resolver, arm the timer, send; a send that throws
\* deletes the entry and resolves.
Dispatch(command, sendOk) ==
  LET c == Len(calls) + 1
      id == uuidv4
      message == BuildMessage(id, command)
      registered == MapSet(pendingRequests, id, c)
  IN /\ uuids' = uuids + 1
     /\ timers' = timers \cup {NewTimer(id, c)}
     /\ IF sendOk
        THEN /\ sent' = [sent EXCEPT ![extensionSocket] = @ \cup {message.id}]
             /\ pendingRequests' = registered
             /\ calls' = Append(calls, NewCall(id, extensionSocket, <<>>))
        ELSE /\ sent' = sent
             /\ pendingRequests' = MapDelete(registered, id)
             /\ calls' = Append(calls, NewCall(id, NoSocket, <<SendFailed>>))

\* executeCommand(command); sendOk: whether extensionSocket.send() returns
\* rather than throws.
ExecuteCommand(command, sendOk) ==
  /\ Len(calls) < MaxCalls
  /\ IF extensionSocket = NoSocket
     THEN RejectNotConnected
     ELSE Dispatch(command, sendOk)
  /\ UNCHANGED <<extensionSocket, peers>>

\* POST /execute: what the HTTP caller of call c is answered once the promise
\* is settled or rejected; the catch branch answers with status 500.
PostExecute(c) ==
  IF calls[c].rejected
  THEN [status |-> 500, body |-> Failure("error.message")]
  ELSE [status |-> 200, body |-> Head(calls[c].results)]

\* TimerFire without the has(id) test.
TimerFireUnchecked(t) ==
  /\ t \in timers
  /\ \A u \in timers : u.delay = t.delay => u.call >= t.call
  /\ timers' = timers \ {t}
  /\ pendingRequests' = MapDelete(pendingRequests, t.id)
  /\ calls' = Resolve(calls, t.call, RequestTimeout)
  /\ UNCHANGED <<extensionSocket, peers, sent, uuids>>

\* TimerFire that resolves nothing.
TimerFireSilent(t) ==
  /\ t \in timers
  /\ \A u \in timers : u.delay = t.delay => u.call >= t.call
  /\ timers' = timers \ {t}
  /\ UNCHANGED <<extensionSocket, pendingRequests, peers, sent, calls, uuids>>

\* TimerFire that clears the whole table when its request is pending.
TimerFireDrains(t) ==
  /\ t \in timers
  /\ \A u \in timers : u.delay = t.delay => u.call >= t.call
  /\ timers' = timers \ {t}
  /\ IF MapHas(pendingRequests, t.id)
     THEN /\ pendingRequests' = {}
          /\ calls' = ForEachResolve(pendingRequests, calls, RequestTimeout)
     ELSE UNCHANGED <<pendingRequests, calls>>
  /\ UNCHANGED <<extensionSocket, peers, sent, uuids>>

\* TimerFire that leaves the table alone.
TimerFireKeepsEntry(t) ==
  /\ t \in timers
  /\ \A u \in timers : u.delay = t.delay => u.call >= t.call
  /\ timers' = timers \ {t}
  /\ UNCHANGED <<extensionSocket, pendingRequests, peers, sent, calls, uuids>>

\* The setTimeout callback of one request.
TimerFire(t) ==
  /\ t \in timers
  /\ \A u \in timers : u.delay = t.delay => u.call >= t.call
  /\ timers' = timers \ {t}
  /\ IF MapHas(pendingRequests, t.id)
     THEN /\ pendingRequests' = MapDelete(pendingRequests, t.id)
          /\ calls' = Resolve(calls, t.call, RequestTimeout)
     ELSE UNCHANGED <<pendingRequests, calls>>
  /\ UNCHANGED <<extensionSocket, peers, sent, uuids>>

\* The body GET /health answers with (the timestamp left out).
Health ==
  [status |-> "ok", extensionConnected |-> extensionSocket # NoSocket]

\* The body GET /status answers with (the uptime left out).
Status ==
  [server |-> "running", extensionConnected |-> extensionSocket # NoSocket,
   pendingRequests |-> Cardinality(pendingRequests)]

\* GET /health: the handler reads extensionSocket and assigns nothing.
GetHealth == UNCHANGED vars

\* GetStatus that empties the table it reports on.
GetStatusDrains ==
  /\ pendingRequests' = {}
  /\ UNCHANGED <<extensionSocket, peers, sent, calls, timers, uuids>>

\* GET /status: the handler reads extensionSocket and pendingRequests.size and
\* assigns nothing.
GetStatus == UNCHANGED vars

Next ==
  \/ \E p \in Peers : Connection(p) /\ UNCHANGED <<bgvars, tabvars, popup>>
  \/ \E p \in Peers : \E frame \in Frames(p) : OnMessage(p, frame) /\ UNCHANGED <<bgvars, tabvars, popup>>
  \/ \E p \in Peers : OnClose(p) /\ UNCHANGED <<bgvars, tabvars, popup>>
  \/ \E command \in Commands, sendOk \in BOOLEAN :
       ExecuteCommand(command, sendOk) /\ UNCHANGED <<bgvars, tabvars, popup>>
  \/ \E t \in timers : TimerFire(t) /\ UNCHANGED <<bgvars, tabvars, popup>>
  \/ GetHealth /\ UNCHANGED <<bgvars, tabvars, popup>>
  \/ GetStatus /\ UNCHANGED <<bgvars, tabvars, popup>>

Spec == Init /\ [][Next]_allvars

\* An armed timer eventually runs.
FairSpec ==
  Spec /\ WF_allvars(\E t \in timers :
                       TimerFire(t) /\ UNCHANGED <<bgvars, tabvars, popup>>)

TypeOK ==
  /\ extensionSocket \in {NoSocket} \cup Peers
  /\ peers \in [Peers -> {"idle", "open", "closed"}]
  /\ uuids \in 0..MaxCalls

\* ===================================================== background script
\* this.reconnectDelay *= 1.5, exact on fractions (and on the doubles of the
\* script, for every delay a behaviour reaches).
Backoff(d) ==
  IF d.num % 2 = 0
  THEN [num |-> (d.num \div 2) * 3, den |-> d.den]
  ELSE [num |-> d.num * 3, den |-> d.den * 2]

Less(a, b) == a.num * b.den < b.num * a.den

\* What the bridge puts on the wire for the script: a command object with an
\* id (the k-th message carries k), text that is not JSON, or the JSON text
\* `null`.
BridgeFrames ==
  {[text |-> "object", id |-> Len(messages) + 1],
   [text |-> "garbage", id |-> NoId], [text |-> "null", id |-> NoId]}

\* How executeCommand can end: findTargetTab finds no tab; the content script
\* answers with a result; chrome.runtime.lastError is set; the content script
\* gives no response; findTargetTab or sendToContentScript throws.
Outcomes ==
  {[kind |-> k, result |-> NoMsg] :
     k \in {"noTab", "lastError", "noResponse", "thrown"}}
    \cup {[kind |-> "result", result |-> Reply(NoId, b)] : b \in Payloads}

\* The object executeCommand returns for command id under an outcome: id,
\* success, data and error, and no elementType.
BgResult(id, outcome) ==
  IF outcome.kind = "result"
  THEN [id |-> id, success |-> outcome.result.success, data |-> outcome.result.data,
        error |-> outcome.result.error, elementType |-> Undefined]
  ELSE [Failure(CASE outcome.kind = "noTab" -> "No suitable tab found"
                  [] outcome.kind = "lastError" -> "chrome.runtime.lastError.message"
                  [] outcome.kind = "noResponse" -> "No response from content script"
                  [] OTHER -> "error.message")
          EXCEPT !.id = id]

\* scheduleReconnect that ignores maxReconnectAttempts.
scheduleReconnectUnbounded ==
  /\ reconnectAttempts' = reconnectAttempts + 1
  /\ reconnectTimers' = Append(reconnectTimers, reconnectDelay)
  /\ reconnectDelay' = Backoff(reconnectDelay)

\* scheduleReconnect(): below the maximum, count the attempt, arm a timer with
\* the current delay, then lengthen the delay; at the maximum, only log.
scheduleReconnect ==
  IF reconnectAttempts < maxReconnectAttempts
  THEN /\ reconnectAttempts' = reconnectAttempts + 1
       /\ reconnectTimers' = Append(reconnectTimers, reconnectDelay)
       /\ reconnectDelay' = Backoff(reconnectDelay)
  ELSE UNCHANGED <<reconnectAttempts, reconnectTimers, reconnectDelay>>

\* onopen that also starts the backoff afresh.
onopenResetsDelay(w) ==
  /\ sockets[w] = "connecting"
  /\ sockets' = [sockets EXCEPT ![w] = "open"]
  /\ isConnected' = TRUE
  /\ reconnectAttempts' = 0
  /\ reconnectDelay' = [num |-> 2000, den |-> 1]
  /\ UNCHANGED <<websocket, reconnectTimers, messages>>

\* websocket.onopen of object w.
onopen(w) ==
  /\ sockets[w] = "connecting"
  /\ sockets' = [sockets EXCEPT ![w] = "open"]
  /\ isConnected' = TRUE
  /\ reconnectAttempts' = 0
  /\ UNCHANGED <<websocket, reconnectDelay, reconnectTimers, messages>>

\* websocket.onclose of object w: the connection was lost, or the attempt
\* failed (onerror, which only logs, comes first).
onclose(w) ==
  /\ sockets[w] \in {"connecting", "open"}
  /\ sockets' = [sockets EXCEPT ![w] = "closed"]
  /\ isConnected' = FALSE
  /\ scheduleReconnect
  /\ UNCHANGED <<websocket, messages>>

\* The reconnect timer whose callback does nothing.
ReconnectTimerIdle(i) ==
  /\ i \in 1..Len(reconnectTimers)
  /\ Len(sockets) < MaxSockets
  /\ reconnectTimers' = SubSeq(reconnectTimers, 1, i - 1)
                          \o SubSeq(reconnectTimers, i + 1, Len(reconnectTimers))
  /\ UNCHANGED <<websocket, sockets, isConnected, reconnectAttempts, reconnectDelay,
                 messages>>

\* The callback of a reconnect timer: connectToBridge() creates a WebSocket
\* object and assigns it to this.websocket. (The constructor does not throw
\* for the fixed, well-formed bridgeUrl.)
connectToBridge(i) ==
  /\ i \in 1..Len(reconnectTimers)
  /\ Len(sockets) < MaxSockets
  /\ reconnectTimers' = SubSeq(reconnectTimers, 1, i - 1)
                          \o SubSeq(reconnectTimers, i + 1, Len(reconnectTimers))
  /\ sockets' = Append(sockets, "connecting")
  /\ websocket' = Len(sockets) + 1
  /\ UNCHANGED <<isConnected, reconnectAttempts, reconnectDelay, messages>>

\* A message record: the frame, the object it arrived on, how far its handling
\* got ("running": executeCommand awaits; "done": its result went to
\* sendToBridge; "failed": the handler threw), the outcome, and what
\* sendToBridge handed to which object.
NewMessage(frame, w, stage) ==
  [text |-> frame.text, id |-> frame.id, via |-> w, stage |-> stage,
   outcome |-> [kind |-> "none", result |-> NoMsg], replies |-> <<>>]

\* websocket.onmessage -> handleBridgeMessage(data), up to its first await.
\* JSON.parse throws on garbage, and the destructuring in executeCommand
\* throws on null; the catch block then reads `message`, which is declared in
\* the try block and not in scope: a ReferenceError leaves the handler and
\* nothing is sent. A command object starts executeCommand.
handleBridgeMessage(w, frame) ==
  /\ sockets[w] = "open"
  /\ Len(messages) < MaxMessages
  /\ frame \in BridgeFrames
  /\ messages' =
       Append(messages,
              NewMessage(frame, w, IF frame.text = "object" THEN "running" ELSE "failed"))
  /\ UNCHANGED <<websocket, sockets, isConnected, reconnectAttempts, reconnectDelay,
                 reconnectTimers>>

\* sendToBridge that sends nothing for a command without a tab.
sendToBridgeLossy(m, message) ==
  IF websocket # 0 /\ isConnected /\ message.error # "No suitable tab found"
  THEN [messages EXCEPT ![m].replies =
          Append(@, [socket |-> websocket, message |-> message])]
  ELSE messages

\* sendToBridge(message) for the m-th message received: sent on
\* this.websocket when there is one and isConnected, dropped otherwise.
sendToBridge(m, message) ==
  IF websocket # 0 /\ isConnected
  THEN [messages EXCEPT ![m].replies =
          Append(@, [socket |-> websocket, message |-> message])]
  ELSE messages

\* The rest of handleBridgeMessage for the m-th message: executeCommand
\* returns its result object, which goes to sendToBridge.
executeCommandReturns(m, outcome) ==
  /\ m \in 1..Len(messages)
  /\ messages[m].stage = "running"
  /\ outcome \in Outcomes
  /\ messages' =
       [sendToBridge(m, BgResult(messages[m].id, outcome)) EXCEPT
          ![m].stage = "done", ![m].outcome = outcome]
  /\ UNCHANGED <<websocket, sockets, isConnected, reconnectAttempts, reconnectDelay,
                 reconnectTimers>>

BgNext ==
  \/ \E w \in 1..Len(sockets) : onopen(w) /\ UNCHANGED <<vars, tabvars, popup>>
  \/ \E w \in 1..Len(sockets) : onclose(w) /\ UNCHANGED <<vars, tabvars, popup>>
  \/ \E i \in 1..Len(reconnectTimers) : connectToBridge(i) /\ UNCHANGED <<vars, tabvars, popup>>
  \/ \E w \in 1..Len(sockets) : \E frame \in BridgeFrames :
       handleBridgeMessage(w, frame) /\ UNCHANGED <<vars, tabvars, popup>>
  \/ \E m \in 1..Len(messages) : \E outcome \in Outcomes :
       executeCommandReturns(m, outcome) /\ UNCHANGED <<vars, tabvars, popup>>

BgSpec == Init /\ [][BgNext]_allvars

\* An armed reconnect timer eventually runs.
BgFairSpec ==
  BgSpec /\ WF_allvars(\E i \in 1..Len(reconnectTimers) :
                         connectToBridge(i) /\ UNCHANGED <<vars, tabvars, popup>>)

\* ======================================================== tab selection
\* URLs are sequences of letters; a tab without a readable url has <<>>, and
\* so has a command without a url (an empty string is as falsy as undefined).
NoUrl == <<>>
TabUrls == {NoUrl, <<"a">>, <<"b">>, <<"a", "b">>}
TargetUrls == {NoUrl, <<"a">>, <<"b">>, <<"b", "a">>}
TabLists == UNION {[1..n -> TabUrls] : n \in 0..MaxTabs}

\* String.prototype.includes.
Includes(s, t) ==
  \E i \in 0..(Len(s) - Len(t)) : SubSeq(s, i + 1, i + Len(t)) = t

\* tabs.find that returns the last tab matching the target URL.
FindLast(ts, targetUrl, i) ==
  LET hits == {j \in 1..Len(ts) : ts[j] # NoUrl /\ Includes(ts[j], targetUrl)}
  IN IF hits = {} THEN 0 ELSE CHOOSE j \in hits : \A k \in hits : k <= j

\* tabs.find(tab => tab.url && tab.url.includes(targetUrl)), from index i on:
\* the first tab that matches, 0 (undefined) if none does.
RECURSIVE Find(_, _, _)
Find(ts, targetUrl, i) ==
  IF i > Len(ts) THEN 0
  ELSE IF ts[i] # NoUrl /\ Includes(ts[i], targetUrl) THEN i
  ELSE Find(ts, targetUrl, i + 1)

\* The tab selection once it has ended with tab t (0: null): without a tab
\* executeCommand returns the failure and messages no content script, with one
\* it calls sendToContentScript(tab.id, ...).
Selected(f, t) ==
  [f EXCEPT !.stage = "done", !.target = t, !.messaged = t,
            !.reply = IF t = 0
                      THEN <<BgResult(f.id, [kind |-> "noTab", result |-> NoMsg])>>
                      ELSE <<>>]

\* The browser: tabs open, close, navigate, and the active tab changes.
TabsChange ==
  /\ tabs' \in TabLists
  /\ active' \in 0..Len(tabs')
  /\ <<tabs', active'>> # <<tabs, active>>
  /\ UNCHANGED find

\* executeCommand(command) up to the second await of findTargetTab: all tabs
\* are queried; with a url, the first tab that contains it is returned.
QueryTabs(id, targetUrl) ==
  /\ find.stage \in {"idle", "done"}
  /\ LET f == [stage |-> "fallback", id |-> id, url |-> targetUrl, target |-> 0,
               messaged |-> 0, reply |-> <<>>]
         matchingTab == IF targetUrl # NoUrl THEN Find(tabs, targetUrl, 1) ELSE 0
     IN find' = IF matchingTab # 0 THEN Selected(f, matchingTab) ELSE f
  /\ UNCHANGED <<tabs, active>>

\* The rest of findTargetTab: the active tab of the current window is queried;
\* activeTabs[0] || null is returned.
QueryActive ==
  /\ find.stage = "fallback"
  /\ find' = Selected(find, active)
  /\ UNCHANGED <<tabs, active>>

TabNext ==
  \/ TabsChange /\ UNCHANGED <<vars, bgvars, popup>>
  \/ \E id \in 1..MaxMessages, targetUrl \in TargetUrls :
       QueryTabs(id, targetUrl) /\ UNCHANGED <<vars, bgvars, popup>>
  \/ QueryActive /\ UNCHANGED <<vars, bgvars, popup>>

TabSpec == Init /\ [][TabNext]_allvars

\* ================================================================ popup
\* sendMessageToBackground(message) of the popup: updateStatus sends
\* 'getStatus' (at startup and every 2 s), the Reconnect button 'reconnect'.
\* A message record: its type, how far it got ("sent"; "answered": the
\* listener called sendResponse and the popup's promise resolved; "open": the
\* listener returned without calling sendResponse; "rejected": the popup's
\* callback ran with chrome.runtime.lastError), the response, and the
\* WebSocket object the listener created for it (0: none).
PopupSend(type) ==
  /\ Len(popup) < MaxPopup
  /\ popup' = Append(popup, [type |-> type, status |-> "sent",
                             response |-> Undefined, attempt |-> 0])
  /\ UNCHANGED bgvars

\* The chrome.runtime.onMessage listener of setupMessageHandlers, for the k-th
\* popup message: 'getStatus' is answered with the connection state; for any
\* other type the listener does nothing and returns true, which keeps the
\* message channel open. No field of the script is assigned.
OnRuntimeMessage(k) ==
  /\ k \in 1..Len(popup)
  /\ popup[k].status = "sent"
  /\ popup' = [popup EXCEPT ![k] =
                 IF @.type = "getStatus"
                 THEN [@ EXCEPT !.status = "answered",
                                !.response = IF isConnected THEN "connected"
                                             ELSE "disconnected"]
                 ELSE [@ EXCEPT !.status = "open"]]
  /\ UNCHANGED bgvars

\* A channel left open may be closed by the browser (when sendResponse is
\* collected, or the script is unloaded): the popup's callback then runs with
\* lastError set and its promise is rejected. Whether and when is up to the
\* browser.
PortClosed(k) ==
  /\ k \in 1..Len(popup)
  /\ popup[k].status = "open"
  /\ popup' = [popup EXCEPT ![k].status = "rejected"]
  /\ UNCHANGED bgvars

PopupNext ==
  \/ \E w \in 1..Len(sockets) : onopen(w) /\ UNCHANGED <<vars, tabvars, popup>>
  \/ \E w \in 1..Len(sockets) : onclose(w) /\ UNCHANGED <<vars, tabvars, popup>>
  \/ \E i \in 1..Len(reconnectTimers) :
       connectToBridge(i) /\ UNCHANGED <<vars, tabvars, popup>>
  \/ \E type \in {"getStatus", "reconnect"} : PopupSend(type) /\ UNCHANGED <<vars, tabvars>>
  \/ \E k \in 1..Len(popup) : OnRuntimeMessage(k) /\ UNCHANGED <<vars, tabvars>>
  \/ \E k \in 1..Len(popup) : PortClosed(k) /\ UNCHANGED <<vars, tabvars>>

PopupSpec == Init /\ [][PopupNext]_allvars

\* A message sent is delivered to the listener, and an armed reconnect timer
\* runs.
PopupFairSpec ==
  /\ PopupSpec
  /\ WF_allvars(\E k \in 1..Len(popup) : OnRuntimeMessage(k) /\ UNCHANGED <<vars, tabvars>>)
  /\ WF_allvars(\E i \in 1..Len(reconnectTimers) :
                  connectToBridge(i) /\ UNCHANGED <<vars, tabvars, popup>>)

\* ================================================================ properties
Calls == 1..Len(calls)
Registered(c) == calls[c].key # NoId
Pending(c) == MapHas(pendingRequests, calls[c].key)
IsReply(value) == value.id # NoId
Result(c, value) == Settled(c) /\ Delivered(c) = value

\* C1: the resolve function of a call is invoked at most once, whatever the
\* order of its reply, its timer, the close handler and the send failure.
C1_ResolvedAtMostOnce ==
  \A c \in Calls : Len(calls[c].results) <= 1

\* A call answered by its peer, whose timer ran and whose peer closed later.
C1_Witness ==
  \E c \in Calls :
    /\ Registered(c) /\ Settled(c) /\ IsReply(Delivered(c))
    /\ ~Armed(c)
    /\ calls[c].socket # NoSocket /\ peers[calls[c].socket] = "closed"

\* C2: every call made is eventually settled, given that armed timers run.
C2_EventuallySettled ==
  \A c \in 1..MaxCalls : (c \in Calls) ~> (c \in Calls /\ Settled(c))

\* A call to which the peer, still open, never replied, settled by its timer.
C2_Witness ==
  \E c \in Calls :
    /\ Result(c, RequestTimeout)
    /\ calls[c].socket # NoSocket /\ peers[calls[c].socket] = "open"

\* C3: a call made while extensionSocket is null is resolved at once with
\* 'Extension not connected'; no identifier is generated, the table, the timers
\* and what was sent stay as they were.
C3_NotConnectedFailsFast ==
  [][(Len(calls') = Len(calls) + 1 /\ extensionSocket = NoSocket) =>
       /\ calls'[Len(calls')].results = <<NotConnected>>
       /\ calls'[Len(calls')].key = NoId
       /\ UNCHANGED <<pendingRequests, timers, sent, uuids>>]_vars

\* A call refused for want of a connection after an earlier call was registered.
C3_Witness ==
  \E c, d \in Calls :
    /\ c < d /\ Registered(c)
    /\ ~Registered(d) /\ Result(d, NotConnected)

\* C4: calls are registered under identifiers that differ from one another, and
\* every reply a call is given carries the identifier that call is registered
\* under.
C4_MatchedById ==
  /\ \A c, d \in Calls : (c # d /\ Registered(c) /\ Registered(d)) => calls[c].key # calls[d].key
  /\ \A c \in Calls : \A i \in 1..Len(calls[c].results) :
       IsReply(calls[c].results[i]) => calls[c].results[i].id = calls[c].key

\* Two calls in flight together, the later one answered first.
C4_Witness ==
  \E c, d \in Calls :
    /\ c < d /\ Registered(c) /\ ~Settled(c) /\ Pending(c)
    /\ Settled(d) /\ IsReply(Delivered(d)) /\ calls[d].socket = calls[c].socket

\* C5: when a peer's close handler runs, every call in the table is resolved
\* with 'Extension disconnected' and the table is empty afterwards.
C5_CloseDrains ==
  [][(\E p \in Peers : peers[p] = "open" /\ peers'[p] = "closed") =>
       /\ pendingRequests' = {}
       /\ \A e \in pendingRequests : calls'[e[2]].results = <<Disconnected>>]_vars

\* Two calls that were pending together, both ended by the disconnect.
C5_Witness ==
  \E c, d \in Calls :
    /\ c # d
    /\ Result(c, Disconnected) /\ Result(d, Disconnected)
    /\ pendingRequests = {}

\* C6: a call whose peer is still open and which is resolved by something
\* other than a reply is resolved by its own timer, armed with the 30 s delay,
\* with 'Request timeout', and its entry leaves the table.
C6_TimeoutAtDeadline ==
  [][\A c \in Calls :
       ( /\ calls[c].socket # NoSocket /\ peers'[calls[c].socket] = "open"
         /\ ~Settled(c)
         /\ calls'[c].results # <<>> /\ ~IsReply(Head(calls'[c].results)) )
       => /\ Head(calls'[c].results) = RequestTimeout
          /\ ~MapHas(pendingRequests', calls[c].key)
          /\ \E t \in timers \ timers' : t.call = c /\ t.delay = Timeout]_vars

\* C7: a call for which the peer it was sent to delivered a reply carrying its
\* key before its timer ran is resolved with that reply.
C7_ReplyBeatsTimer ==
  \A c \in Calls :
    calls[c].reply # <<>> => Result(c, Head(calls[c].reply))

\* C8: handling a message whose id belongs to a call that is already settled
\* changes neither the table nor what any call was resolved with: a step
\* leaves both as they were, or it is not the handling of such a message.
C8_LateReplyIgnored ==
  [][\/ /\ pendingRequests' = pendingRequests
        /\ \A d \in Calls : calls'[d].results = calls[d].results
     \/ \A c \in Calls : \A p \in Peers : \A b \in Payloads :
          ~ ( /\ Registered(c) /\ Settled(c)
              /\ OnMessage(p, [text |-> "object", msg |-> Reply(calls[c].key, b)]) )]_vars

\* A message for a settled call was handled while another call was pending.
C8_Witness ==
  \E c, d \in Calls :
    /\ Settled(c) /\ calls[c].ignored /\ Len(calls[c].results) = 1
    /\ ~Settled(d) /\ Pending(d)

\* C9: a call whose send throws is resolved at once with 'Failed to send to
\* extension', and a call that is settled when executeCommand returns has no
\* entry in the table, which is as it was before the call.
C9_SendFailureResolves ==
  [][Len(calls') = Len(calls) + 1 =>
       LET c == Len(calls') IN
       /\ (\E command \in Commands :
             extensionSocket # NoSocket /\ ExecuteCommand(command, FALSE))
            => calls'[c].results = <<SendFailed>>
       /\ calls'[c].results # <<>> =>
            /\ ~MapHas(pendingRequests', calls'[c].key)
            /\ pendingRequests' = pendingRequests]_vars

\* A call refused by a send failure, its timer still armed, beside a pending call.
C9_Witness ==
  \E c, d \in Calls :
    /\ Result(c, SendFailed) /\ Armed(c) /\ ~Pending(c)
    /\ ~Settled(d) /\ Pending(d)

\* C10: the table holds one entry per identifier, and its entries are exactly
\* the registered calls that have not been resolved.
C10_TableIsUnsettled ==
  /\ \A e, f \in pendingRequests : e[1] = f[1] => e = f
  /\ pendingRequests = {<<calls[c].key, c>> : c \in {d \in Calls : Registered(d) /\ ~Settled(d)}}

\* A registered call that was resolved beside one that is still in the table.
C10_Witness ==
  \E c, d \in Calls :
    /\ Registered(c) /\ Settled(c) /\ ~Pending(c)
    /\ Registered(d) /\ ~Settled(d) /\ Pending(d)

\* C11: the message handed to the socket for a call carries the identifier
\* generated for that call, the key of its entry, whatever the request body
\* holds.
C11_MessageCarriesKey ==
  [][Len(calls') = Len(calls) + 1 =>
       LET c == Len(calls')
       IN calls'[c].socket # NoSocket =>
            /\ calls'[c].key \in sent'[calls'[c].socket]
            /\ sent'[calls'[c].socket] = sent[calls'[c].socket] \cup {calls'[c].key}]_vars

\* The peer accepted last, and the peers accepted before it.
Accepted == {p \in Peers : peers[p] # "idle"}
Latest(p) == p \in Accepted /\ \A q \in Accepted : q <= p
Replaced(q) == q \in Accepted /\ \E p \in Accepted : p > q

\* C12: a peer that connects while another is open replaces it: it becomes
\* extensionSocket, the calls pending at that moment are resolved with
\* 'Extension disconnected', and afterwards neither a close event nor a message
\* of a replaced peer changes the table or extensionSocket.
C12_ReplacePolicy ==
  [][/\ \A p \in Peers :
          (peers[p] = "idle" /\ peers'[p] = "open" /\ \E q \in Peers : peers[q] = "open")
          => /\ extensionSocket' = p
             /\ pendingRequests' = {}
             /\ \A e \in pendingRequests : calls'[e[2]].results = <<Disconnected>>
     /\ \A q \in Peers :
          (Replaced(q) /\ peers[q] = "open" /\ peers'[q] = "closed")
          => UNCHANGED <<pendingRequests, extensionSocket>>
     /\ \/ UNCHANGED <<pendingRequests, extensionSocket>>
        \/ \A q \in Peers : \A frame \in Frames(q) :
             ~(Replaced(q) /\ OnMessage(q, frame))]_vars

\* C13: extensionSocket is set exactly when the peer accepted last is open, and
\* the close event of a replaced peer resolves no call that was sent to another
\* peer which is open.
C13_ConnectedIffLatestOpen ==
  [][/\ (extensionSocket' # NoSocket) <=> (\E p \in Peers : Latest(p)' /\ peers'[p] = "open")
     /\ \A q \in Peers :
          (Replaced(q) /\ peers[q] = "open" /\ peers'[q] = "closed")
          => \A c \in Calls :
               (calls[c].socket \notin {NoSocket, q} /\ peers[calls[c].socket] = "open")
               => calls'[c].results = calls[c].results]_vars

\* C14: a call whose send throws leaves extensionSocket null, the state in which
\* the calls that follow are refused with 'Extension not connected'.
C14_SendFailureDisconnects ==
  [][Len(calls') = Len(calls) + 1 =>
       (calls'[Len(calls')].results = <<SendFailed>> => extensionSocket' = NoSocket)]_vars

\* C15: in every state with extensionSocket null the table is empty.
C15_AbsentMeansEmpty ==
  extensionSocket = NoSocket => pendingRequests = {}

\* The socket was set to null by a close event that drained a pending call, and
\* a call made afterwards was refused.
C15_Witness ==
  /\ extensionSocket = NoSocket
  /\ \E c, d \in Calls : c < d /\ Result(c, Disconnected) /\ Result(d, NotConnected)

\* C16: the timer of a call is armed with the call's own `timeout` field when
\* the body has one, and with the 30 s delay when it has none.
C16_OwnTimeoutArmed ==
  [][(Len(calls') = Len(calls) + 1 /\ extensionSocket # NoSocket) =>
       \A command \in Commands, sendOk \in BOOLEAN :
         ExecuteCommand(command, sendOk) =>
           \E t \in timers' \ timers :
             /\ t.call = Len(calls')
             /\ t.delay = IF command.timeout = 0 THEN Timeout ELSE command.timeout]_vars

\* C16, as the code has it: the timer of every call is armed with the fixed
\* 30 s delay, whatever `timeout` field the body has, and a call is resolved
\* with 'Request timeout' only by that timer.
C16_FixedTimeoutArmed ==
  [][/\ (Len(calls') = Len(calls) + 1 /\ extensionSocket # NoSocket) =>
          \A command \in Commands, sendOk \in BOOLEAN :
            ExecuteCommand(command, sendOk) =>
              timers' \ timers =
                {[id |-> calls'[Len(calls')].key, call |-> Len(calls'), delay |-> Timeout]}
     /\ \A c \in Calls :
          (~Settled(c) /\ calls'[c].results = <<RequestTimeout>>)
          => \E t \in timers \ timers' : t.call = c /\ t.delay = Timeout]_vars

\* A call sent to a peer that stays open and silent, ended by its timer, after
\* which a second call was sent and is waiting.
C16_Witness ==
  \E c, d \in Calls :
    /\ c < d
    /\ Result(c, RequestTimeout) /\ ~Armed(c)
    /\ calls[c].socket # NoSocket /\ peers[calls[c].socket] = "open"
    /\ calls[c].reply = <<>> /\ ~calls[c].ignored
    /\ ~Settled(d) /\ Pending(d) /\ Armed(d)

\* A frame that the message handler drops: text that does not parse, `null`, or
\* an object whose id is not in the table.
Dropped(frame) ==
  frame.text # "object" \/ ~MapHas(pendingRequests, frame.msg.id)

\* C17: handling a frame that is malformed or whose id is absent or not in the
\* table resolves no call and changes neither the table, extensionSocket nor the
\* peer, whose later messages are handled as before: a step leaves all of them
\* as they were, or it is not the handling of such a frame.
C17_UncorrelatedDropped ==
  [][\/ /\ UNCHANGED <<pendingRequests, extensionSocket, peers, timers>>
        /\ \A c \in Calls : calls'[c].results = calls[c].results
     \/ \A p \in Peers : \A frame \in Frames(p) :
          ~(Dropped(frame) /\ OnMessage(p, frame))]_vars

\* A message whose id was not in the table was handled, and the same peer,
\* still open and still extensionSocket, answered another call.
C17_Witness ==
  \E c, d \in Calls :
    /\ c # d /\ calls[c].ignored /\ Len(calls[c].results) = 1
    /\ calls[d].socket = calls[c].socket /\ calls[d].socket = extensionSocket
    /\ peers[extensionSocket] = "open"
    /\ Settled(d) /\ calls[d].reply = <<Delivered(d)>>

\* C18: what the caller of a call answered with a successful reply receives is
\* the reply's payload without an `id` field.
C18_ResultWithoutId ==
  \A c \in Calls :
    (Settled(c) /\ Delivered(c).success)
    => \E b \in Payloads : b.success /\ PostExecute(c).body = Reply(NoId, b)

\* C19: no promise is rejected, POST /execute answers every settled call with
\* status 200, and every result that is not a successful reply has success
\* false and an error string.
C19_FailuresAreResults ==
  \A c \in Calls :
    /\ ~calls[c].rejected
    /\ Settled(c) =>
         /\ PostExecute(c).status = 200
         /\ ~IsReply(PostExecute(c).body) => ~PostExecute(c).body.success
         /\ ~PostExecute(c).body.success => PostExecute(c).body.error # Undefined

\* Calls that ended in a send failure and in an error reported by the executor.
C19_Witness ==
  \E c, d \in Calls :
    /\ Result(c, SendFailed)
    /\ Settled(d) /\ IsReply(Delivered(d)) /\ ~Delivered(d).success

\* C20: a call resolved by a reply with success false is resolved with the
\* error string of the message the peer delivered.
C20_ErrorVerbatim ==
  [][\A c \in Calls :
       ( /\ ~Settled(c) /\ calls'[c].results # <<>>
         /\ IsReply(Head(calls'[c].results))
         /\ ~Head(calls'[c].results).success )
       => \E p \in Peers : \E b \in Payloads :
            /\ ~b.success
            /\ OnMessage(p, [text |-> "object", msg |-> Reply(calls[c].key, b)])
            /\ Head(calls'[c].results).error = b.error
            /\ Head(calls'[c].results).error # Undefined]_vars

\* A call answered with the executor's own error while its peer is open.
C20_Witness ==
  \E c \in Calls :
    /\ Settled(c) /\ IsReply(Delivered(c))
    /\ Delivered(c).error = "Element not found"
    /\ calls[c].reply = <<Delivered(c)>>
    /\ peers[calls[c].socket] = "open"

\* C21: GET /status and GET /health leave the table and extensionSocket as
\* they are; in every state the pendingRequests that /status reports is the
\* number of calls not yet resolved, and the extensionConnected of both says
\* whether extensionSocket is set.
C21_StatusReadOnly ==
  /\ [](/\ Status.pendingRequests = Cardinality({c \in Calls : ~Settled(c)})
        /\ Status.extensionConnected = (extensionSocket # NoSocket)
        /\ Health.extensionConnected = (extensionSocket # NoSocket))
  /\ [][(GetStatus \/ GetHealth) => UNCHANGED <<pendingRequests, extensionSocket>>]_vars

\* One call waiting beside one already resolved, with a peer connected.
C21_Witness ==
  /\ Status.pendingRequests = 1 /\ Status.extensionConnected
  /\ Len(calls) = 2 /\ \E c \in Calls : Settled(c)

\* C22: the identifier of the message handed to the socket is in the table at
\* the moment of sending.
C22_RegisteredBeforeSend ==
  [][(Len(calls') = Len(calls) + 1 /\ calls'[Len(calls')].socket # NoSocket) =>
       \A command \in Commands :
         ExecuteCommand(command, TRUE) =>
           MapHas(pendingRequests', BuildMessage(calls'[Len(calls')].key, command).id)]_vars

\* C23: a timer that runs while its call is pending removes that call's entry
\* and resolves that call alone; a timer that runs after its call was resolved
\* changes nothing but the set of armed timers.
C23_TimerAffectsOwnEntry ==
  [][\A t \in timers \ timers' :
       /\ UNCHANGED <<extensionSocket, peers, sent, uuids>>
       /\ \A c \in Calls : c # t.call => calls'[c] = calls[c]
       /\ IF MapHas(pendingRequests, t.id)
          THEN /\ pendingRequests' = pendingRequests \ {<<t.id, t.call>>}
               /\ calls'[t.call].results = <<RequestTimeout>>
          ELSE UNCHANGED <<pendingRequests, calls>>]_vars

\* Two calls sent to the same peer: the timer of the first has run and resolved
\* it, the second is still in the table with its timer armed.
C23_Witness ==
  \E c, d \in Calls :
    /\ c < d
    /\ Result(c, RequestTimeout) /\ ~Armed(c)
    /\ Pending(d) /\ ~Settled(d) /\ Armed(d)
    /\ calls[d].socket = calls[c].socket

\* C24: every identifier in the table has its timer armed.
C24_EntryHasTimer ==
  \A e \in pendingRequests : \E t \in timers : t.id = e[1] /\ t.call = e[2]

\* An entry with its timer, beside a call resolved by a reply whose timer is
\* still armed.
C24_Witness ==
  \E c, d \in Calls :
    /\ Pending(c) /\ Armed(c)
    /\ Settled(d) /\ IsReply(Delivered(d)) /\ Armed(d)

\* ------------------------------------------- background script properties
Messages == 1..Len(messages)

\* The script has stopped trying: the maximum is reached, no timer is armed and
\* no WebSocket object is connecting or open.
GaveUp ==
  /\ reconnectAttempts = maxReconnectAttempts
  /\ reconnectTimers = <<>>
  /\ \A w \in 1..Len(sockets) : sockets[w] = "closed"

\* Connection attempts and reconnect timers outstanding.
Outstanding ==
  Cardinality({w \in 1..Len(sockets) : sockets[w] = "connecting"}) + Len(reconnectTimers)

RECURSIVE Pow(_, _)
Pow(b, n) == IF n = 0 THEN 1 ELSE b * Pow(b, n - 1)

\* C25: the script hands at most one reply per message to a socket, every
\* reply carries the id of its command, and a command whose handling ended
\* while the WebSocket object it arrived on was still open was answered with
\* exactly one reply, on that object.
C25_OneReplyWithId ==
  \A m \in Messages :
    /\ Len(messages[m].replies) <= 1
    /\ \A i \in 1..Len(messages[m].replies) :
         messages[m].replies[i].message.id = messages[m].id
    /\ ( /\ messages[m].text = "object" /\ messages[m].stage = "done"
         /\ sockets[messages[m].via] = "open" )
       => /\ Len(messages[m].replies) = 1
          /\ messages[m].replies[1].socket = messages[m].via

\* A command during which findTargetTab threw, answered on the open socket.
C25_Witness ==
  \E m \in Messages :
    /\ messages[m].stage = "done" /\ messages[m].outcome.kind = "thrown"
    /\ sockets[messages[m].via] = "open"
    /\ Len(messages[m].replies) = 1

\* C26: a message whose handling threw, on a WebSocket object that is open,
\* was answered with one reply that has success false and an error string.
C26_FailureReported ==
  \A m \in Messages :
    (messages[m].stage = "failed" /\ sockets[messages[m].via] = "open" /\ isConnected)
    => /\ Len(messages[m].replies) = 1
       /\ ~messages[m].replies[1].message.success
       /\ messages[m].replies[1].message.error # Undefined

\* C27: the reply to a command the content script answered carries the
\* elementType of the content script's result.
C27_ReplyHasElementType ==
  \A m \in Messages :
    (messages[m].stage = "done" /\ messages[m].outcome.kind = "result")
    => \A i \in 1..Len(messages[m].replies) :
         messages[m].replies[i].message.elementType
           = messages[m].outcome.result.elementType

\* C28: after the close event of the WebSocket object created last, a new
\* object is eventually created.
C28_AlwaysReconnects ==
  \A n \in 1..(MaxSockets - 1) :
    (Len(sockets) = n /\ sockets[n] = "closed") ~> (Len(sockets) > n)

\* C28, as the code has it: after the close event of the WebSocket object
\* created last a new object is eventually created, unless the script has
\* given up, which it does at the close event that finds reconnectAttempts at
\* the maximum; having given up it makes no further attempt.
C28_ReconnectsBelowMaximum ==
  /\ \A n \in 1..(MaxSockets - 1) :
       (Len(sockets) = n /\ sockets[n] = "closed" /\ ~GaveUp) ~> (Len(sockets) > n)
  /\ [][GaveUp => (GaveUp' /\ sockets' = sockets /\ ~isConnected')]_bgvars

\* A connection that opened after two earlier objects were closed.
C28_Witness ==
  /\ Len(sockets) >= 3 /\ sockets[Len(sockets)] = "open" /\ isConnected
  /\ \A w \in 1..(Len(sockets) - 1) : sockets[w] = "closed"

\* C29: reconnectAttempts stays within 0..maxReconnectAttempts and at most one
\* connection attempt or reconnect timer is outstanding; a timer is armed only
\* below the maximum and together with one increment, and reconnectAttempts
\* changes otherwise only to 0, when a connection opens.
C29_AttemptsBounded ==
  /\ [](/\ reconnectAttempts \in 0..maxReconnectAttempts
        /\ Outstanding <= 1)
  /\ [][/\ Len(reconnectTimers') > Len(reconnectTimers) =>
             /\ reconnectAttempts < maxReconnectAttempts
             /\ reconnectAttempts' = reconnectAttempts + 1
        /\ reconnectAttempts' # reconnectAttempts =>
             \/ /\ reconnectAttempts' = reconnectAttempts + 1
                /\ Len(reconnectTimers') = Len(reconnectTimers) + 1
             \/ /\ reconnectAttempts' = 0
                /\ \E w \in 1..Len(sockets) :
                     sockets[w] = "connecting" /\ sockets'[w] = "open"]_bgvars

\* The script after the close event that found reconnectAttempts at the
\* maximum.
C29_Witness ==
  GaveUp /\ Len(sockets) = maxReconnectAttempts + 1

\* C30: reconnectDelay is 2000 * 1.5^n with n the number of reconnects
\* scheduled since startup; no step decreases it, a step that arms a timer
\* gives the timer the current delay and multiplies the delay by 1.5, and a
\* step that opens a connection leaves it as it is.
C30_DelayNeverDecreases ==
  /\ [](LET n == (Len(sockets) - 1) + Len(reconnectTimers)
        IN reconnectDelay.num * Pow(2, n) = 2000 * Pow(3, n) * reconnectDelay.den)
  /\ [][/\ ~Less(reconnectDelay', reconnectDelay)
        /\ Len(reconnectTimers') > Len(reconnectTimers) =>
             /\ reconnectTimers'[Len(reconnectTimers')] = reconnectDelay
             /\ 2 * reconnectDelay'.num * reconnectDelay.den
                  = 3 * reconnectDelay.num * reconnectDelay'.den
        /\ (\E w \in 1..Len(sockets) : sockets[w] = "connecting" /\ sockets'[w] = "open")
             => reconnectDelay' = reconnectDelay]_bgvars

\* The first reconnect after a connection had opened (reconnectAttempts is 1),
\* scheduled with a delay above the initial one.
C30_Witness ==
  /\ reconnectAttempts = 1
  /\ Len(reconnectTimers) = 1
  /\ Less([num |-> 2000, den |-> 1], reconnectTimers[1])

\* C31: when the command has a url and the URL of some tab contains it, the
\* first such tab is selected and messaged; when it has none, or no tab
\* matches, the selection goes on to the active tab of the current window;
\* when that does not exist either, executeCommand returns {id, success:false,
\* error:'No suitable tab found'} and no content script is messaged.
C31_TabSelection ==
  [][/\ (find.stage \in {"idle", "done"} /\ find' # find) =>
          LET hits == {j \in 1..Len(tabs) : Includes(tabs[j], find'.url)}
          IN IF find'.url # NoUrl /\ hits # {}
             THEN /\ find'.stage = "done"
                  /\ find'.target \in hits /\ \A j \in hits : find'.target <= j
                  /\ find'.messaged = find'.target /\ find'.reply = <<>>
             ELSE find'.stage = "fallback" /\ find'.messaged = 0 /\ find'.reply = <<>>
     /\ (find.stage = "fallback" /\ find' # find) =>
          /\ find'.stage = "done" /\ find'.target = active
          /\ find'.messaged = active
          /\ find'.reply = IF active # 0 THEN <<>>
                           ELSE <<[id |-> find.id, success |-> FALSE, data |-> Undefined,
                                   error |-> "No suitable tab found",
                                   elementType |-> Undefined]>>]_tabvars

\* Two tabs contain the url and the first of them was selected, not the
\* active one.
C31_Witness ==
  /\ find.stage = "done" /\ find.url # NoUrl
  /\ Len(tabs) = 2 /\ Includes(tabs[1], find.url) /\ Includes(tabs[2], find.url)
  /\ active = 2
  /\ find.target = 1 /\ find.messaged = 1

\* C32: every message the popup sent is eventually answered, and a
\* 'reconnect' message is answered after the listener has created a WebSocket
\* object for it.
C32_PopupAnswered ==
  \A k \in 1..MaxPopup :
    (k <= Len(popup))
      ~> ( /\ k <= Len(popup)
           /\ popup[k].status = "answered"
           /\ popup[k].type = "reconnect" => popup[k].attempt # 0 )

====
